---- MODULE Spec2Model ----
(***************************************************************************)
(* Model of the bulk e-mail dispatcher of src/app.py: the module globals   *)
(* (paused, stop_sending, current_index, total_emails, sent_emails,        *)
(* email_thread, state_lock), the control routes /pause /resume /stop      *)
(* /progress, the /send start handler and the background thread running    *)
(* send_bulk_emails.                                                       *)
(*                                                                         *)
(* Request handlers run concurrently (Flask's app.run() serves each        *)
(* request on its own thread), so the /send handler is modelled statement  *)
(* by statement: its writes at lines 255-259 are not under state_lock.     *)
(***************************************************************************)
EXTENDS Integers, FiniteSets, Sequences, TLC

\* ---------------------------------------------------------------- bounds
MaxJobs == 2        \* Thread objects created by /send over one behaviour
MaxRows == 2        \* largest len(df) of an uploaded recipient file
MaxConfigs == 2     \* largest number of records in email_config.json

Engines == 1..MaxJobs
Handlers == {"h1", "h2"}            \* concurrent /send request threads
\* requested limits: below 1, the first row, the last row of a full file /
\* the first row, past the end of every file
MinLimits == {0, 1, MaxRows}
MaxLimits == {1, MaxRows + 1}
RowKinds == {"valid", "blank", "nan"}

Free == 0                           \* state_lock not held
Ctl == MaxJobs + 1                  \* lock owner id of the control caller
None == 0                           \* email_thread = None

Max2(a, b) == IF a >= b THEN a ELSE b
Min2(a, b) == IF a <= b THEN a ELSE b

VARIABLES
    paused, stop_sending, current_index, total_emails, sent_emails,
    email_thread, state_lock,
    nconfigs,       \* len(load_configurations())
    hpc, hmin,                          \* /send handler threads
    pc, min_limit, max_limit, len_df, ncfg, i, config_index, count, tmp,
    req, snap_total                     \* control caller

globals == <<paused, stop_sending, current_index, total_emails, sent_emails>>
hvars == <<hpc, hmin>>
locals == <<min_limit, max_limit, len_df, ncfg, i, config_index, count, tmp>>
cvars == <<req, snap_total>>
vars == <<globals, email_thread, state_lock, nconfigs, hvars, pc, locals, cvars>>

\* threading.Thread.is_alive(): started and not yet finished
is_alive(e) == pc[e] \notin {"none", "created", "dead", "crashed"}

Init ==
    /\ paused = FALSE
    /\ stop_sending = FALSE
    /\ current_index = 0
    /\ total_emails = 0
    /\ sent_emails = 0
    /\ email_thread = None
    /\ state_lock = Free
    /\ nconfigs \in 0..MaxConfigs
    /\ hpc = [h \in Handlers |-> "idle"]
    /\ hmin = [h \in Handlers |-> 0]
    /\ pc = [e \in Engines |-> "none"]
    /\ min_limit = [e \in Engines |-> 0]
    /\ max_limit = [e \in Engines |-> 0]
    /\ len_df = [e \in Engines |-> 0]
    /\ ncfg = [e \in Engines |-> 0]
    /\ i = [e \in Engines |-> 0]
    /\ config_index = [e \in Engines |-> 0]
    /\ count = [e \in Engines |-> 0]
    /\ tmp = [e \in Engines |-> 0]
    /\ req = "none"
    /\ snap_total = 0

\* ------------------------------------------------------- control routes
\* Each route body is `with state_lock: ...`.  A request that arrives while
\* the lock is held blocks in the acquire (req names it) until the lock is
\* released; one that finds the lock free runs its critical section.
Ops == {"pause", "resume", "stop", "progress"}

ControlBlocked ==
    /\ req = "none"
    /\ state_lock # Free
    /\ \E op \in Ops : req' = op
    /\ UNCHANGED <<globals, email_thread, state_lock, nconfigs, hvars, pc, locals, snap_total>>

Arrives(op) == state_lock = Free /\ req \in {"none", op}

\* mutant: /pause toggles the flag
pause_toggles ==
    /\ Arrives("pause")
    /\ paused' = ~paused
    /\ req' = "none"
    /\ UNCHANGED <<stop_sending, current_index, total_emails, sent_emails, email_thread,
                   state_lock, nconfigs, hvars, pc, locals, snap_total>>

pause_sending ==
    /\ Arrives("pause")
    /\ paused' = TRUE
    /\ req' = "none"
    /\ UNCHANGED <<stop_sending, current_index, total_emails, sent_emails, email_thread,
                   state_lock, nconfigs, hvars, pc, locals, snap_total>>

resume_sending ==
    /\ Arrives("resume")
    /\ paused' = FALSE
    /\ req' = "none"
    /\ UNCHANGED <<stop_sending, current_index, total_emails, sent_emails, email_thread,
                   state_lock, nconfigs, hvars, pc, locals, snap_total>>

stop_sending_emails ==
    /\ Arrives("stop")
    /\ stop_sending' = TRUE
    /\ req' = "none"
    /\ UNCHANGED <<paused, current_index, total_emails, sent_emails, email_thread,
                   state_lock, nconfigs, hvars, pc, locals, snap_total>>

\* get_progress takes the lock and evaluates "total_emails": total_emails
get_progress_total ==
    /\ Arrives("progress")
    /\ state_lock' = Ctl
    /\ snap_total' = total_emails
    /\ req' = "progress2"
    /\ UNCHANGED <<globals, email_thread, nconfigs, hvars, pc, locals>>

\* the response of get_progress: the total read first, sent_emails read now
Snapshot == <<snap_total, sent_emails>>

\* ... then "sent_emails": sent_emails, returns Snapshot and releases
get_progress_sent ==
    /\ req = "progress2"
    /\ state_lock = Ctl
    /\ snap_total' = 0
    /\ state_lock' = Free
    /\ req' = "none"
    /\ UNCHANGED <<globals, email_thread, nconfigs, hvars, pc, locals>>

\* ------------------------------------------------ /send (POST) handler
Created == {e \in Engines : pc[e] # "none"}
InFlight == {h \in Handlers : hpc[h] \notin {"idle", "start"}}
NewThread == CHOOSE e \in Engines : pc[e] = "none" /\ \A d \in Engines : d < e => pc[d] # "none"

\* mutant: the guard of line 251 never refuses a request
ThreadNeverActive == FALSE

\* line 251: if email_thread and email_thread.is_alive()
ThreadActive == email_thread # None /\ is_alive(email_thread)

\* lines 251-253: a thread is alive, the page is rendered and nothing is written
send_email_active(h) ==
    /\ hpc[h] = "idle"
    /\ ThreadActive
    /\ UNCHANGED vars

send_email_accept(h) ==
    /\ hpc[h] = "idle"
    /\ ~ThreadActive
    /\ Cardinality(Created) + Cardinality(InFlight) < MaxJobs
    /\ hpc' = [hpc EXCEPT ![h] = "reset"]
    /\ UNCHANGED <<globals, email_thread, state_lock, nconfigs, hmin, pc, locals, cvars>>

\* line 257: current_index = min_limit - 1, with the requested min_limit
StartCursor(m) == m - 1

\* mutant: the start leaves stop_sending as the last job left it
send_email_reset_keeps_stop(h) ==
    /\ hpc[h] = "reset"
    /\ paused' = FALSE
    /\ \E m \in MinLimits :
        /\ current_index' = StartCursor(m)
        /\ hmin' = [hmin EXCEPT ![h] = m]
    /\ total_emails' = 0
    /\ hpc' = [hpc EXCEPT ![h] = "reset_sent"]
    /\ UNCHANGED <<stop_sending, sent_emails, email_thread, state_lock, nconfigs, pc,
                   locals, cvars>>

\* lines 255-258, none of them under state_lock
send_email_reset(h) ==
    /\ hpc[h] = "reset"
    /\ paused' = FALSE
    /\ stop_sending' = FALSE
    /\ \E m \in MinLimits :
        /\ current_index' = StartCursor(m)
        /\ hmin' = [hmin EXCEPT ![h] = m]
    /\ total_emails' = 0
    /\ hpc' = [hpc EXCEPT ![h] = "reset_sent"]
    /\ UNCHANGED <<sent_emails, email_thread, state_lock, nconfigs, pc, locals, cvars>>

\* line 259
send_email_reset_sent(h) ==
    /\ hpc[h] = "reset_sent"
    /\ sent_emails' = 0
    /\ hpc' = [hpc EXCEPT ![h] = "create"]
    /\ UNCHANGED <<paused, stop_sending, current_index, total_emails, email_thread,
                   state_lock, nconfigs, hmin, pc, locals, cvars>>

\* line 261: email_thread = threading.Thread(target=send_bulk_emails, args=...)
send_email_create(h) ==
    /\ hpc[h] = "create"
    /\ \E mx \in MaxLimits :
        /\ min_limit' = [min_limit EXCEPT ![NewThread] = hmin[h]]
        /\ max_limit' = [max_limit EXCEPT ![NewThread] = mx]
    /\ pc' = [pc EXCEPT ![NewThread] = "created"]
    /\ email_thread' = NewThread
    /\ hmin' = [hmin EXCEPT ![h] = 0]
    /\ hpc' = [hpc EXCEPT ![h] = "start"]
    /\ UNCHANGED <<globals, state_lock, nconfigs, len_df, ncfg, i, config_index,
                   count, tmp, cvars>>

\* line 262: email_thread.start() on whatever the global names now; starting
\* a thread twice raises RuntimeError, caught at line 265
send_email_start(h) ==
    /\ hpc[h] = "start"
    /\ pc' = IF pc[email_thread] = "created" THEN [pc EXCEPT ![email_thread] = "load"] ELSE pc
    /\ hpc' = [hpc EXCEPT ![h] = "idle"]
    /\ UNCHANGED <<globals, email_thread, state_lock, nconfigs, hmin, locals, cvars>>

\* --------------------------------- send_bulk_emails (the engine thread)
\* lines 119-123: clamp, then swap when min_limit > max_limit
\* (ClampMinKept is the mutant that leaves a requested minimum below 1)
ClampMinKept(m) == m
ClampMin(m) == Max2(1, m)
ClampMax(n, x) == Min2(n, x)
NormMin(m, x, n) == IF ClampMin(m) > ClampMax(n, x) THEN ClampMax(n, x) ELSE ClampMin(m)
NormMax(m, x, n) == IF ClampMin(m) > ClampMax(n, x) THEN ClampMin(m) ELSE ClampMax(n, x)

\* line 126
TotalTarget(mn, mx) == mx - mn + 1

\* mutant: the rotation counter is not reduced modulo the list length
RotateNoWrap(c, n) == c + 1

\* line 198, reached only after a successful sendmail
Rotate(c, n) == (c + 1) % n

\* the shared cursor after the delivery attempt for row k: line 196 on
\* success; the except branch (201-203) writes nothing
CursorAfterSuccess(cur, k) == k + 1

\* mutant: a failed attempt advances the cursor like a successful one
CursorAdvancedByFailure(cur, k) == k + 1
CursorAfterFailure(cur, k) == cur

\* mutant: a failed attempt consumes a rotation step
RotatedByFailure(c, n) == (c + 1) % n

\* the rotation counter after a failed attempt: line 198 is skipped
RotateAfterFailure(c, n) == c

\* df.iloc[k]: positions -len..len-1 exist (negative ones count from the end)
InFrame(k, n) == -n <= k /\ k < n

Ended(p) == p \in {"dead", "crashed"}

\* the thread's frame; it is gone once the thread has ended
SetLocals(e, p, mn, mx, n, c, k, ci, cnt, t) ==
    /\ pc' = [pc EXCEPT ![e] = p]
    /\ min_limit' = [min_limit EXCEPT ![e] = IF Ended(p) THEN 0 ELSE mn]
    /\ max_limit' = [max_limit EXCEPT ![e] = IF Ended(p) THEN 0 ELSE mx]
    /\ len_df' = [len_df EXCEPT ![e] = IF Ended(p) THEN 0 ELSE n]
    /\ ncfg' = [ncfg EXCEPT ![e] = IF Ended(p) THEN 0 ELSE c]
    /\ i' = [i EXCEPT ![e] = IF Ended(p) THEN 0 ELSE k]
    /\ config_index' = [config_index EXCEPT ![e] = IF Ended(p) THEN 0 ELSE ci]
    /\ count' = [count EXCEPT ![e] = IF Ended(p) THEN 0 ELSE cnt]
    /\ tmp' = [tmp EXCEPT ![e] = IF Ended(p) THEN 0 ELSE t]

\* a step of engine e that changes only its position, loop index and counters
Go(e, p, k, ci, cnt, t) ==
    SetLocals(e, p, min_limit[e], max_limit[e], len_df[e], ncfg[e], k, ci, cnt, t)

\* line 132: the for statement takes the next value of range(start, max_limit)
LoopPc(e, k) == IF k < max_limit[e] THEN "check" ELSE "dead"

\* lines 106-110: no configurations, the thread returns at once
send_bulk_noconfig(e) ==
    /\ pc[e] = "load"
    /\ nconfigs = 0
    /\ Go(e, "dead", 0, 0, 0, 0)
    /\ UNCHANGED <<globals, email_thread, state_lock, nconfigs, hvars, cvars>>

\* lines 112-116: read_excel raises, the thread returns
send_bulk_unreadable(e) ==
    /\ pc[e] = "load"
    /\ nconfigs > 0
    /\ Go(e, "dead", 0, 0, 0, 0)
    /\ UNCHANGED <<globals, email_thread, state_lock, nconfigs, hvars, cvars>>

\* lines 106-123: configurations and the frame of n rows loaded, limits adjusted
send_bulk_load(e) ==
    /\ pc[e] = "load"
    /\ nconfigs > 0
    /\ \E n \in 0..MaxRows :
        SetLocals(e, "init", NormMin(min_limit[e], max_limit[e], n),
                  NormMax(min_limit[e], max_limit[e], n), n, nconfigs, 0, 0, 0, 0)
    /\ UNCHANGED <<globals, email_thread, state_lock, nconfigs, hvars, cvars>>

\* lines 125-130
send_bulk_init(e) ==
    /\ pc[e] = "init"
    /\ state_lock = Free
    /\ total_emails' = TotalTarget(min_limit[e], max_limit[e])
    /\ sent_emails' = 0
    /\ Go(e, "range", 0, 0, 0, 0)
    /\ UNCHANGED <<paused, stop_sending, current_index, email_thread, state_lock,
                   nconfigs, hvars, cvars>>

\* line 132: range(current_index, max_limit) is built from the global, unlocked
send_bulk_range(e) ==
    /\ pc[e] = "range"
    /\ Go(e, LoopPc(e, current_index), current_index, 0, 0, 0)
    /\ UNCHANGED <<globals, email_thread, state_lock, nconfigs, hvars, cvars>>

\* lines 133-136: stop_sending seen under the lock, break
send_bulk_stop(e) ==
    /\ pc[e] = "check"
    /\ state_lock = Free
    /\ stop_sending
    /\ Go(e, "dead", 0, 0, 0, 0)
    /\ UNCHANGED <<globals, email_thread, state_lock, nconfigs, hvars, cvars>>

\* lines 141-158 for row k of the frame, by what its email cell holds: an
\* empty cell is read by pandas as NaN, a float without strip(), so line 150
\* raises AttributeError outside any try and the thread ends; a blank string
\* (or a file without the email column) continues with the next index;
\* otherwise the delivery attempt starts.
FetchKind(e, k, kind) ==
    CASE kind = "nan" -> Go(e, "crashed", 0, 0, 0, 0)
      [] kind = "blank" -> Go(e, LoopPc(e, k + 1), k + 1, config_index[e], count[e], 0)
      [] kind = "valid" -> Go(e, "send", k, config_index[e], count[e], 0)

\* line 141: df.iloc[k] outside the frame raises IndexError, uncaught, so the
\* thread ends; inside the frame the row is one of RowKinds
Fetch(e, k) ==
    IF ~InFrame(k, len_df[e])
       THEN Go(e, "crashed", 0, 0, 0, 0)
       ELSE \E kind \in RowKinds : FetchKind(e, k, kind)

\* lines 133-139: not stopped and not paused: the with block is left and the
\* row is fetched
send_bulk_check(e) ==
    /\ pc[e] = "check"
    /\ state_lock = Free
    /\ ~stop_sending
    /\ ~paused
    /\ Fetch(e, i[e])
    /\ UNCHANGED <<globals, email_thread, state_lock, nconfigs, hvars, cvars>>

\* lines 137-139: not stopped but paused: the thread sleeps inside the with
\* block, still owning state_lock
send_bulk_pause(e) ==
    /\ pc[e] = "check"
    /\ state_lock = Free
    /\ ~stop_sending
    /\ paused
    /\ state_lock' = e
    /\ Go(e, "paused_wait", i[e], config_index[e], count[e], 0)
    /\ UNCHANGED <<globals, email_thread, nconfigs, hvars, cvars>>

\* lines 137-141: a sleep(1) ends and `paused` is read again; while it is
\* still true nothing changes, once it is false the lock is released
send_bulk_unpaused(e) ==
    /\ pc[e] = "paused_wait"
    /\ state_lock = e
    /\ ~paused
    /\ state_lock' = Free
    /\ Fetch(e, i[e])
    /\ UNCHANGED <<globals, email_thread, nconfigs, hvars, cvars>>

\* lines 169-192: the SMTP exchange succeeded; the thread sleeps `delay`
send_bulk_sent(e) ==
    /\ pc[e] = "send"
    /\ Go(e, "delay", i[e], config_index[e], count[e], 0)
    /\ UNCHANGED <<globals, email_thread, state_lock, nconfigs, hvars, cvars>>

\* lines 201-202: the SMTP exchange raised; the except branch logs the
\* failure and writes neither the cursor nor the rotation counter
send_bulk_failed(e) ==
    /\ pc[e] = "send"
    /\ current_index' = CursorAfterFailure(current_index, i[e])
    /\ Go(e, "failed", i[e], RotateAfterFailure(config_index[e], ncfg[e]), count[e], 0)
    /\ UNCHANGED <<paused, stop_sending, total_emails, sent_emails, email_thread,
                   state_lock, nconfigs, hvars, cvars>>

\* mutant: the except branch leaves the loop
send_bulk_abort(e) ==
    /\ pc[e] = "failed"
    /\ Go(e, "dead", 0, 0, 0, 0)
    /\ UNCHANGED <<globals, email_thread, state_lock, nconfigs, hvars, cvars>>

\* line 203: continue with the next index, without the delay
send_bulk_continue(e) ==
    /\ pc[e] = "failed"
    /\ Go(e, LoopPc(e, i[e] + 1), i[e] + 1, config_index[e], count[e], 0)
    /\ UNCHANGED <<globals, email_thread, state_lock, nconfigs, hvars, cvars>>

\* lines 192-195: the delay is over, the lock is taken and sent_emails is read
send_bulk_lock(e) ==
    /\ pc[e] = "delay"
    /\ state_lock = Free
    /\ state_lock' = e
    /\ Go(e, "commit", i[e], config_index[e], count[e], sent_emails)
    /\ UNCHANGED <<globals, email_thread, nconfigs, hvars, cvars>>

\* lines 195-199: sent_emails and current_index written, lock released,
\* rotation and count advanced
send_bulk_commit(e) ==
    /\ pc[e] = "commit"
    /\ state_lock = e
    /\ sent_emails' = tmp[e] + 1
    /\ current_index' = CursorAfterSuccess(current_index, i[e])
    /\ state_lock' = Free
    /\ Go(e, LoopPc(e, i[e] + 1), i[e] + 1, Rotate(config_index[e], ncfg[e]),
          count[e] + 1, 0)
    /\ UNCHANGED <<paused, stop_sending, total_emails, email_thread, nconfigs, hvars, cvars>>

send_email(h) ==
    \/ send_email_active(h)
    \/ send_email_accept(h)
    \/ send_email_reset(h)
    \/ send_email_reset_sent(h)
    \/ send_email_create(h)
    \/ send_email_start(h)

\* the steps of the engine thread other than the exit from the paused wait
send_bulk_run(e) ==
    \/ send_bulk_noconfig(e)
    \/ send_bulk_unreadable(e)
    \/ send_bulk_load(e)
    \/ send_bulk_init(e)
    \/ send_bulk_range(e)
    \/ send_bulk_stop(e)
    \/ send_bulk_check(e)
    \/ send_bulk_pause(e)
    \/ send_bulk_sent(e)
    \/ send_bulk_failed(e)
    \/ send_bulk_continue(e)
    \/ send_bulk_lock(e)
    \/ send_bulk_commit(e)

send_bulk_emails(e) ==
    \/ send_bulk_run(e)
    \/ send_bulk_unpaused(e)

Control ==
    \/ ControlBlocked
    \/ pause_sending
    \/ resume_sending
    \/ stop_sending_emails
    \/ get_progress_total
    \/ get_progress_sent

Next ==
    \/ Control
    \/ \E h \in Handlers : send_email(h)
    \/ \E e \in Engines : send_bulk_emails(e)

Spec == Init /\ [][Next]_vars

\* Every thread that can run is eventually scheduled: the control caller,
\* each /send handler and each engine thread.
Fairness ==
    /\ WF_vars(Control)
    /\ \A h \in Handlers : WF_vars(send_email(h))
    /\ \A e \in Engines : WF_vars(send_bulk_emails(e))

FairSpec == Spec /\ Fairness

\* /send requests served one at a time (a single request thread).  No step
\* of this specification can clear `paused` while an engine sleeps inside the
\* with block (resume_sending needs the lock and a new start is refused while
\* the thread is alive), so send_bulk_unpaused has no step here.
SerialHandler == "h1"

NextSerial ==
    \/ Control
    \/ send_email(SerialHandler)
    \/ \E e \in Engines : send_bulk_run(e)

SerialSpec == Init /\ [][NextSerial]_vars

\* /send requests served one at a time, and control calls made only while no
\* start is under way: not between the guard of line 251 and the moment the
\* new thread reaches its loop at line 132.
Quiet ==
    /\ \A h \in Handlers : hpc[h] = "idle"
    /\ \A e \in Engines : pc[e] \notin {"created", "load", "init", "range"}

NextQuiet ==
    \/ Quiet /\ Control
    \/ send_email(SerialHandler)
    \/ \E e \in Engines : send_bulk_run(e)

QuietSpec == Init /\ [][NextQuiet]_vars

\* ------------------------------------------------------------------ claims
Running(e) == pc[e] \in {"check", "paused_wait", "send", "failed", "delay", "commit"}
Alive == {e \in Engines : is_alive(e)}

\* C1: the engine never owns state_lock while it is suspended: in the paused
\* wait, in a Sender call or in the pacing delay.
C1_NoLockWhileSuspended ==
    \A e \in Engines : pc[e] \in {"paused_wait", "send", "delay"} => state_lock # e

\* C2: at most one engine thread is alive at any time.
C2_AtMostOneEngineAlive == Cardinality(Alive) <= 1

\* C3: when the engine sees stop_sending at its check point and ends, sent_emails
\* is exactly the number of deliveries that succeeded in that run.
C3_StopLeavesExactCount ==
    [][\A e \in Engines : send_bulk_stop(e) => sent_emails = count[e]]_vars

\* C4: an engine in the paused wait leaves it once a resume or a stop has been
\* requested: after a resume request it goes on, after a stop request it ends.
C4_PausedWaitIsLeft ==
    \A e \in Engines :
        /\ (pc[e] = "paused_wait" /\ req = "stop") ~> ~is_alive(e)
        /\ (pc[e] = "paused_wait" /\ req = "resume") ~> (pc[e] # "paused_wait")

\* C5: every progress request made while the engine is in the paused wait returns.
C5_ProgressReturnsDuringPause ==
    ((\E e \in Engines : pc[e] = "paused_wait") /\ req = "progress") ~> (req = "none")

\* C6: sent_emails <= total_emails in every snapshot get_progress returns and
\* when a run has ended (stated for the states in which no start request is
\* half way through resetting the counters).
C6_SentWithinTotal ==
    InFlight = {} =>
        /\ req = "progress2" => Snapshot[2] <= Snapshot[1]
        /\ Alive = {} => sent_emails <= total_emails

\* C7: the cursor is never negative and every row the engine works on has an
\* index in 0..N-1.
C7_CursorAndRowsInRange ==
    /\ current_index >= 0
    /\ \A e \in Engines :
        pc[e] \in {"send", "failed", "delay", "commit"} => i[e] \in 0..(len_df[e] - 1)

\* C8: apart from the writes of a job start, no step lowers current_index or
\* sent_emails, and only a step of the engine changes them.
JobStartStep ==
    \/ \E h \in Handlers : send_email_reset(h) \/ send_email_reset_sent(h)
    \/ \E e \in Engines : send_bulk_init(e)

C8_MonotoneWithinRun ==
    [][~JobStartStep =>
        /\ current_index' >= current_index
        /\ sent_emails' >= sent_emails
        /\ (<<current_index, sent_emails>>' # <<current_index, sent_emails>>
              => \E e \in Engines : send_bulk_emails(e))]_vars

\* C9 as claimed: every finished attempt, failed or successful, advances the
\* rotation counter by one modulo the number of credentials.
AttemptEnds(e) == send_bulk_failed(e) \/ (send_bulk_commit(e) /\ Running(e)')

C9_RotatesOnEveryAttempt ==
    [][\A e \in Engines :
        AttemptEnds(e) => config_index'[e] = (config_index[e] + 1) % ncfg[e]]_vars

\* C9 as amended: the rotation counter advances by one (modulo the number of
\* credentials) for every successful delivery and not for a failed attempt:
\* after k successes of a run the engine is on credential k mod N.
C9_RotatesOnSuccessOnly ==
    \A e \in Engines : Running(e) => config_index[e] = count[e] % ncfg[e]

\* a failed attempt that follows one success, still on credential 1 of 2
C9_Witness ==
    \E e \in Engines :
        pc[e] = "failed" /\ ncfg[e] = 2 /\ count[e] = 1 /\ config_index[e] = 1

\* C10 as claimed: after a failed delivery to recipient i the cursor is i + 1.
C10_CursorAfterFailedIsNext ==
    \A e \in Engines : pc[e] = "failed" => current_index = i[e] + 1

\* C10 as amended: the loop index goes up by exactly 1 per attempted recipient
\* whatever the outcome, but the shared cursor is written only after a
\* success (to i + 1); a failed delivery leaves it as it was.
C10_CursorWrittenOnSuccessOnly ==
    [][\A e \in Engines :
        /\ send_bulk_failed(e) => current_index' = current_index
        /\ send_bulk_commit(e) => current_index' = i[e] + 1
        /\ ((send_bulk_continue(e) \/ send_bulk_commit(e)) /\ Running(e)'
              => i'[e] = i[e] + 1)]_vars

\* a delivery to recipient i has failed and the cursor is not past i
C10_Witness ==
    \E e \in Engines : pc[e] = "failed" /\ current_index <= i[e]

\* C11: processing a record whose email address is empty (a blank string or an
\* empty cell) leaves sent_emails and the rotation counter unchanged, starts
\* neither a delivery nor a delay, and the engine goes on to the next index.
EmptyKinds == {"blank", "nan"}

C11_EmptyAddressSkipped ==
    [][\A e \in Engines : \A kind \in EmptyKinds :
        (send_bulk_check(e) /\ i[e] \in 0..(len_df[e] - 1) /\ FetchKind(e, i[e], kind))
            => /\ sent_emails' = sent_emails
               /\ pc'[e] = LoopPc(e, i[e] + 1)
               /\ Running(e)' => /\ i'[e] = i[e] + 1
                                 /\ config_index'[e] = config_index[e]
                                 /\ count'[e] = count[e]]_vars

\* C12: a start request handled while the thread named by email_thread is
\* alive is refused: the handler writes no global (cursor, total, sent count,
\* paused, stop flag), creates and starts no thread and leaves the running
\* engine as it is.
C12_StartWhileAliveChangesNothing ==
    [][\A h \in Handlers :
        (hpc[h] = "idle" /\ email_thread # None /\ is_alive(email_thread) /\ send_email(h))
            => UNCHANGED vars]_vars

\* a request can arrive at an idle handler while the engine is in mid-run
C12_Witness ==
    /\ hpc[SerialHandler] = "idle"
    /\ email_thread # None
    /\ is_alive(email_thread)
    /\ ENABLED send_email_active(SerialHandler)
    /\ sent_emails > 0

\* C13: with no configuration loaded a start request writes no global
\* (cursor, total, sent count, paused, stop flag) and no engine thread runs.
C13_NoConfigNoMutation ==
    [][nconfigs = 0 =>
        /\ \A h \in Handlers : send_email(h) => UNCHANGED globals
        /\ \A e \in Engines : ~is_alive(e)']_vars

\* C14: a failed delivery never ends the run: the failure leaves sent_emails
\* as it is, the engine takes no delay and goes straight to the loop's next
\* index, and it leaves the loop after a failure only when that index is the
\* upper bound of the range.
C14_FailureNeverEndsJob ==
    [][\A e \in Engines :
        /\ (pc[e] = "send" /\ pc'[e] = "failed")
              => sent_emails' = sent_emails /\ i'[e] = i[e]
        /\ (pc[e] = "failed" /\ pc'[e] # "failed")
              => /\ sent_emails' = sent_emails
                 /\ pc'[e] = IF i[e] + 1 < max_limit[e] THEN "check" ELSE "dead"
                 /\ pc'[e] = "check" => i'[e] = i[e] + 1]_vars

\* a delivery has failed after one success and a further row is still to come
C14_Witness ==
    \E e \in Engines : pc[e] = "failed" /\ i[e] + 1 < max_limit[e] /\ sent_emails = 1

\* C15: for the requested limits (m, x) and a frame of n rows the engine
\* raises m to 1 when it is below 1, lowers x to n when it is above n, swaps
\* the two when the minimum then exceeds the maximum, and sets total_emails
\* to max - min + 1 of the adjusted pair; requested 50, 10 with 100 rows
\* gives 10, 50 and a total of 41.
C15_WindowNormalized ==
    [][/\ NormMin(50, 10, 100) = 10
       /\ NormMax(50, 10, 100) = 50
       /\ TotalTarget(NormMin(50, 10, 100), NormMax(50, 10, 100)) = 41
       /\ \A e \in Engines :
            /\ (pc[e] = "load" /\ pc'[e] = "init") =>
                  LET m == min_limit[e]
                      x == max_limit[e]
                      n == len_df'[e]
                      cm == IF m < 1 THEN 1 ELSE m
                      cx == IF x > n THEN n ELSE x
                  IN  /\ min_limit'[e] = IF cm > cx THEN cx ELSE cm
                      /\ max_limit'[e] = IF cm > cx THEN cm ELSE cx
                      /\ min_limit'[e] <= max_limit'[e]
            /\ (pc[e] = "init" /\ pc'[e] = "range") =>
                  total_emails' = max_limit[e] - min_limit[e] + 1]_vars

\* adjusted limits that only the swap produces: an empty frame lowers the
\* maximum to 0, below the minimum 1, and the pair is exchanged
C15_Witness ==
    \E e \in Engines :
        pc[e] = "range" /\ len_df[e] = 0 /\ min_limit[e] = 0 /\ max_limit[e] = 1
                        /\ total_emails = 2

\* C16: in a run that starts at row 0 (min_limit = 1) in which every row so
\* far was valid and delivered, the rotation counter starts at 0 and the
\* delivery for row k uses configuration k mod N (with 3 configurations the
\* first 5 deliveries use 0, 1, 2, 0, 1), sent_emails and the cursor both
\* equal the number of rows done, and the run ends with both equal to the
\* number of rows of the window.
\* The run began at row 0 and each of the i rows before the current one was
\* delivered: i deliveries counted and the cursor moved to i.
AllDeliveredSoFar(e) ==
    /\ pc[e] \in {"check", "send", "delay", "commit"}
    /\ i[e] >= 0
    /\ count[e] = i[e]
    /\ current_index = i[e]

C16_RoundRobinAllSucceed ==
    [][/\ LET s == <<0, 1, 2, 0, 1>>
          IN  \A j \in 1..4 : s[j + 1] = Rotate(s[j], 3)
       /\ \A e \in Engines :
            /\ (pc[e] = "range" /\ pc'[e] = "check") => config_index'[e] = 0
            /\ AllDeliveredSoFar(e)' =>
                  /\ config_index'[e] = i'[e] % ncfg'[e]
                  /\ sent_emails' = i'[e]
            /\ (AllDeliveredSoFar(e) /\ pc[e] = "commit" /\ pc'[e] = "dead") =>
                  /\ sent_emails' = max_limit[e]
                  /\ current_index' = max_limit[e]
                  /\ sent_emails' = total_emails']_vars

\* the second of two deliveries, with two configurations, is being committed
C16_Witness ==
    \E e \in Engines :
        /\ AllDeliveredSoFar(e)
        /\ pc[e] = "commit"
        /\ i[e] = 1
        /\ ncfg[e] = 2
        /\ config_index[e] = 1
        /\ max_limit[e] = 2

\* C17: the globals are written only by the thread that owns state_lock: while
\* get_progress owns it (between its two reads) no global changes, and while
\* an engine owns it only that engine's commit changes one.
C17_WritesUnderLock ==
    [][/\ state_lock = Ctl => UNCHANGED globals
       /\ \A e \in Engines :
            (state_lock = e /\ globals' # globals) => send_bulk_commit(e)]_vars

\* C18: /pause, /resume and /stop are idempotent and touch one flag each:
\* /pause leaves paused true and /resume leaves it false whatever it was,
\* /stop leaves stop_sending true, none of them changes any other global, and
\* a call that finds its flag already at that value changes no global at all.
C18_ControlIdempotent ==
    [][/\ pause_sending =>
            paused' /\ UNCHANGED <<stop_sending, current_index, total_emails, sent_emails>>
       /\ resume_sending =>
            ~paused' /\ UNCHANGED <<stop_sending, current_index, total_emails, sent_emails>>
       /\ stop_sending_emails =>
            stop_sending' /\ UNCHANGED <<paused, current_index, total_emails, sent_emails>>
       /\ ((pause_sending /\ paused) \/ (resume_sending /\ ~paused)
             \/ (stop_sending_emails /\ stop_sending)) => UNCHANGED globals]_vars

\* both flags are set during a run and either call can be made a second time
C18_Witness ==
    /\ paused
    /\ stop_sending
    /\ ENABLED pause_sending
    /\ ENABLED stop_sending_emails
    /\ \E e \in Engines : is_alive(e) /\ sent_emails = 1

\* C19: the loop of a run covers exactly the adjusted window: when range() is
\* built its first index is min_limit - 1 of the adjusted limits, so that the
\* indices up to max_limit - 1 are total_emails many.
C19_LoopCoversWindow ==
    \A e \in Engines :
        pc[e] = "range" =>
            /\ current_index = min_limit[e] - 1
            /\ max_limit[e] - current_index = total_emails

\* C20: every accepted start clears paused and stop_sending before its thread
\* takes the first check: whatever pause and stop calls were made before the
\* start, both flags are false from the thread's start until it reaches its
\* loop, so the run neither begins paused nor stops before its first row.
C20_StartClearsFlags ==
    \A e \in Engines :
        pc[e] \in {"created", "load", "init", "range"} => ~paused /\ ~stop_sending

\* a start accepted after an earlier job has ended, with both flags still set
C20_Witness ==
    /\ hpc[SerialHandler] = "reset"
    /\ paused
    /\ stop_sending
    /\ \E e \in Engines : pc[e] \in {"dead", "crashed"}

====
